---------------------------- MODULE Spec2Model ----------------------------
(***************************************************************************)
(* The request handlers of the class-feedback portal (surveyor/views.py)   *)
(* as a state machine.  The state is the four tables of the persistence    *)
(* layer (User, Teacher, Class, Feedback), the principal each browser      *)
(* session is logged in as, and the last request with its response.  One   *)
(* action per route; every handler runs atomically (one request, one       *)
(* commit).                                                                *)
(***************************************************************************)
EXTENDS Integers, Sequences, FiniteSets, TLC

VARIABLES
    users,      \* User table: sequence of rows, a row's id is its index
    feedback,   \* Feedback table: set of rows [id, student_id, class_id, content, is_anonymous]
    session,    \* per browser session: the id of the logged-in User, 0 for none
    last,       \* the last request served: route, client, form data, response
    pending     \* per server worker: the login request it is in the middle of

vars == <<users, feedback, session, last, pending>>

---------------------------------------------------------------------------
(* Bounds of the model *)

\* Feedback ids range over 1..MaxFeedbackId
MaxFeedbackId == 2

---------------------------------------------------------------------------
(* Values *)

\* Python's None (SQL NULL) in a column that otherwise holds a form string
None == "None"

\* Browser sessions
Clients == {"c1"}

\* Server workers that serve requests at the same time
Workers == {"w1", "w2"}

\* School identifiers that people type into the login form, as sequences of
\* characters; the empty sequence is the absent form field ('')
s12345  == <<"s", "1", "2", "3", "4", "5">>
s123456 == <<"s", "1", "2", "3", "4", "5", "6">>
s1234   == <<"s", "1", "2", "3", "4">>
t001    == <<"t", "0", "0", "1">>
Usernames == {s12345, s123456, s1234, t001}
UsernameInputs == Usernames \cup {<<>>}

\* Passwords typed into the login form; "" is the absent form field
PasswordInputs == {"", "pw", "bad"}

\* Teacher table (externally provisioned roster): the ids of its rows
Teachers == {"1"}
\* values of the 'teacher-id' form field: absent, a roster id, an unknown id
TeacherIdInputs == {"", "1", "2"}

\* Class table (externally provisioned, read-only): id -> row
Classes == [id \in {"1", "2"} |-> [name |-> <<"class", id>>, teacher_id |-> "1"]]
ClassIds == DOMAIN Classes
\* values of the 'feedback-class' form field
ClassInputs == ClassIds

\* values of the 'feedback-content' form field
ContentInputs == {"", "good"}
\* values of the 'feedback-anonymous' checkbox
AnonymousInputs == {"on", "off"}

\* values of a feedback id in a form field or in the URL
DigitText == <<"1", "2", "3", "4", "5", "6", "7", "8", "9">>
FeedbackIdInputs == {""} \cup {DigitText[i] : i \in 1..(MaxFeedbackId + 1)}

\* The database compares an integer id column with a form string: the
\* string's number, and no row (0) for a string that is not a number
IdOf(s) == IF \E i \in DOMAIN DigitText : DigitText[i] = s
           THEN CHOOSE i \in DOMAIN DigitText : DigitText[i] = s
           ELSE 0

---------------------------------------------------------------------------
(* Responses *)

Response(kind, to, code, msg, data, rows) ==
    [kind |-> kind, to |-> to, code |-> code, msg |-> msg, data |-> data, rows |-> rows]

\* redirect(url_for(endpoint))
Redirect(endpoint) == Response("redirect", endpoint, 302, "", {}, <<>>)
\* render_template(template, ...): the template, its message and its rows
Html(template, msg, data) == Response("html", template, 200, msg, data, <<>>)
\* jsonify({'code': code})
Json(code) == Response("json", "", code, "", {}, <<>>)
\* an exception that no handler catches: Flask answers 500
ServerError(what) == Response("error", what, 500, "", {}, <<>>)
\* send_file(filepath, as_attachment=True, ...): the format and the table written
File(format, rows) == Response("file", format, 200, "", {}, rows)

\* gateway: the status codes the identity gateway returned while the request
\* was served, {} when it was not called
Request(route, c, form, resp, gw) ==
    [route |-> route, client |-> c, form |-> form, resp |-> resp, gateway |-> gw]

NoForm == [none |-> TRUE]

---------------------------------------------------------------------------
(* Session / auth manager (flask_login) *)

is_authenticated(c) == session[c] # 0
current_user(c) == users[session[c]]

UnauthorizedToDashboard == Redirect("dashboard_page")
\* @login_manager.unauthorized_handler
unauthorized_access == Redirect("login_page")

\* @login_required on a route that reads or writes nothing when refused
Refuse(route, c, form) ==
    /\ ~is_authenticated(c)
    /\ last' = Request(route, c, form, unauthorized_access, {})
    /\ UNCHANGED <<users, feedback, session, pending>>

\* a handler that answers without touching storage or the session
Answer(route, c, form, resp) ==
    /\ last' = Request(route, c, form, resp, {})
    /\ UNCHANGED <<users, feedback, session, pending>>

---------------------------------------------------------------------------
(* Initial state: the roster is provisioned, nobody has logged in yet *)

\* a worker that is not serving a login
Idle == [stage |-> "idle", client |-> "c1", username |-> <<>>, password |-> "", user |-> 0]

Init ==
    /\ users = <<>>
    /\ feedback = {}
    /\ session = [c \in Clients |-> 0]
    /\ pending = [w \in Workers |-> Idle]
    /\ last = Request("start", "c1", NoForm, Redirect("login_page"), {})

---------------------------------------------------------------------------
(* Identity gateway and password hashing *)

\* The school directory behind the gateway: every account's password
SchoolPassword(username) == "pw"

\* helper.ykps_auth: status 0 and the display name for the right credentials
\* (or 2 when the school system cannot be reached), status 1 otherwise
ykps_auth(username, password) ==
    IF username \in Usernames /\ password = SchoolPassword(username)
    THEN {[code |-> 0, name |-> <<"name", username>>], [code |-> 2, name |-> <<>>]}
    ELSE {[code |-> 1, name |-> <<>>]}

\* werkzeug.security.generate_password_hash / check_password_hash
generate_password_hash(password) == <<"pbkdf2:sha256", password>>
check_password_hash(hash, password) == hash[2] = password

\* models.User.authenticate
authenticate(user, password) == check_password_hash(user.password, password)

---------------------------------------------------------------------------
(* POST /login *)

Digits == {"0", "1", "2", "3", "4", "5", "6", "7", "8", "9"}

\* re.match(r's\d{5}', username): the pattern is matched at the start of the
\* string and nothing anchors its end
IsStudentId(username) ==
    /\ Len(username) >= 6
    /\ username[1] = "s"
    /\ \A i \in 2..6 : username[i] \in Digits

\* all((username, password)): both strings are non-empty
AllFields(username, password) == username # <<>> /\ password # ""

\* if user and user.authenticate(password)
LocalBranch(hasUser, authOk) == hasUser /\ authOk

GatewayBranchOnMismatch(hasUser, authOk) == ~(hasUser /\ authOk)
\* elif not user
GatewayBranch(hasUser, authOk) == ~LocalBranch(hasUser, authOk) /\ ~hasUser

GatewayAcceptedUnlessRejected(code) == code # 1
\* if code == 0
GatewayAccepted(code) == code = 0

\* user.is_teacher and user.teacher_id == None
IsNewTeacher(user) == user.is_teacher /\ user.teacher_id = None

\* User(school_id=..., name=..., password=..., is_teacher=...)
NewUser(username, name, password) ==
    [school_id |-> username, name |-> name,
     password |-> generate_password_hash(password),
     is_teacher |-> ~IsStudentId(username), teacher_id |-> None]

LoginForm(username, password) == [username |-> username, password |-> password]

\* return render_template('login.html', login_msg='Incorrect credentials!')
LoginFailed(c, form, gw) ==
    /\ last' = Request("login", c, form, Html("login.html", "Incorrect credentials!", {}), gw)
    /\ UNCHANGED <<users, feedback, session>>

\* login_user(user) and the redirect that follows
LoginSucceeded(c, form, id, isNewTeacher, gw) ==
    /\ session' = [session EXCEPT ![c] = id]
    /\ last' = Request("login", c, form,
                       Redirect(IF isNewTeacher THEN "match_teacher_page" ELSE "dashboard_page"),
                       gw)
    /\ UNCHANGED feedback

SchoolIdIsFreeUnchecked(username) == TRUE
\* models.User.school_id is a unique column: the commit of a second row for
\* an identifier raises IntegrityError
SchoolIdIsFree(username) == \A i \in DOMAIN users : users[i].school_id # username

\* User.query.filter_by(school_id=username).first(): the ids it may return,
\* 0 for None
FirstBySchoolId(username) ==
    LET found == {i \in DOMAIN users : users[i].school_id = username}
    IN  IF found = {} THEN {0} ELSE found

\* the handler from the looked-up user on: id is what the query returned
LoginDecide(c, username, password, id) ==
    LET form == LoginForm(username, password)
        hasUser == id # 0
        authOk == hasUser /\ authenticate(users[id], password)
    IN  IF LocalBranch(hasUser, authOk)
        THEN /\ LoginSucceeded(c, form, id, IsNewTeacher(users[id]), {})
             /\ UNCHANGED users
        ELSE IF GatewayBranch(hasUser, authOk)
        THEN \E r \in ykps_auth(username, password) :
               IF GatewayAccepted(r.code)
               THEN LET user == NewUser(username, r.name, password)
                    IN  IF SchoolIdIsFree(username)
                        THEN /\ users' = Append(users, user)
                             /\ LoginSucceeded(c, form, Len(users) + 1,
                                               user.is_teacher, {r.code})
                        ELSE \* db.session.commit() raises
                             /\ last' = Request("login", c, form,
                                                ServerError("IntegrityError"), {r.code})
                             /\ UNCHANGED <<users, feedback, session>>
               ELSE LoginFailed(c, form, {r.code})
        ELSE LoginFailed(c, form, {})

\* the whole handler in one step
login(c, username, password) ==
    /\ UNCHANGED pending
    /\ IF ~AllFields(username, password)
       THEN LoginFailed(c, LoginForm(username, password), {})
       ELSE \E id \in FirstBySchoolId(username) : LoginDecide(c, username, password, id)

\* the handler up to and including the query for the user
login_lookup(w, c, username, password) ==
    /\ pending[w].stage = "idle"
    /\ IF ~AllFields(username, password)
       THEN /\ LoginFailed(c, LoginForm(username, password), {})
            /\ UNCHANGED pending
       ELSE \E id \in FirstBySchoolId(username) :
              /\ pending' = [pending EXCEPT ![w] =
                                [stage |-> "looked_up", client |-> c, username |-> username,
                                 password |-> password, user |-> id]]
              /\ UNCHANGED <<users, feedback, session, last>>

\* the rest of the handler, other requests having been served in between
login_finish(w) ==
    /\ pending[w].stage = "looked_up"
    /\ LoginDecide(pending[w].client, pending[w].username, pending[w].password,
                   pending[w].user)
    /\ pending' = [pending EXCEPT ![w] = Idle]

---------------------------------------------------------------------------
(* GET / , GET /login , GET /logout *)

index_page(c) ==
    Answer("index_page", c, NoForm,
           IF is_authenticated(c) THEN Redirect("dashboard_page") ELSE Redirect("login_page"))

login_page(c) ==
    Answer("login_page", c, NoForm,
           IF is_authenticated(c) THEN Redirect("dashboard_page")
           ELSE Html("login.html", "", {}))

logout_page(c) ==
    \/ Refuse("logout_page", c, NoForm)
    \/ /\ is_authenticated(c)
       /\ session' = [session EXCEPT ![c] = 0]
       /\ last' = Request("logout_page", c, NoForm, Redirect("login_page"), {})
       /\ UNCHANGED <<users, feedback, pending>>

---------------------------------------------------------------------------
(* GET and POST /match-teacher *)

MatchAllowedForAnyTeacher(user) == user.is_teacher
MatchAllowedForAnyone(user) == TRUE
\* current_user.is_teacher and current_user.teacher_id == None
MatchAllowed(user) == user.is_teacher /\ user.teacher_id = None

\* all teachers who are not yet matched to a user
UnmatchedTeachers ==
    Teachers \ {users[i].teacher_id : i \in {j \in DOMAIN users : users[j].teacher_id # None}}

MatchForm(teacher_id) == [teacher_id |-> teacher_id]

match_teacher_page(c) ==
    \/ Refuse("match_teacher_page", c, NoForm)
    \/ /\ is_authenticated(c)
       /\ Answer("match_teacher_page", c, NoForm,
                 IF ~MatchAllowed(current_user(c))
                 THEN Redirect("dashboard_page")
                 ELSE Html("match-teacher.html", "", UnmatchedTeachers))

match_teacher(c, teacher_id) ==
    \/ Refuse("match_teacher", c, MatchForm(teacher_id))
    \/ /\ is_authenticated(c)
       /\ IF ~MatchAllowed(current_user(c))
          THEN Answer("match_teacher", c, MatchForm(teacher_id), Redirect("dashboard_page"))
          ELSE /\ users' = [users EXCEPT ![session[c]].teacher_id = teacher_id]
               /\ last' = Request("match_teacher", c, MatchForm(teacher_id),
                                  Redirect("dashboard_page"), {})
               /\ UNCHANGED <<feedback, session, pending>>

---------------------------------------------------------------------------
(* GET /dashboard *)

\* current_user.teacher: the Teacher row the user's teacher_id refers to
HasTeacher(user) == user.teacher_id \in Teachers

ClassesOf(teacher_id) == {id \in ClassIds : Classes[id].teacher_id = teacher_id}

dashboard_page(c) ==
    \/ Refuse("dashboard_page", c, NoForm)
    \/ /\ is_authenticated(c)
       /\ Answer("dashboard_page", c, NoForm,
                 IF current_user(c).is_teacher
                 THEN IF HasTeacher(current_user(c))
                      THEN Html("teacher-dashboard.html", "", ClassesOf(current_user(c).teacher_id))
                      ELSE ServerError("AttributeError")
                 ELSE Html("student-dashboard.html", "",
                           {f \in feedback : f.student_id = session[c]}))

---------------------------------------------------------------------------
(* GET /feedback/new , GET /feedback/edit/<feedback_id> *)

EligibleClassesOfAnyStudent(student_id) == ClassIds \ {f.class_id : f \in feedback}
\* all classes which the student has no feedback in
EligibleClasses(student_id) ==
    ClassIds \ {f.class_id : f \in {g \in feedback : g.student_id = student_id}}

new_feedback_page(c) ==
    \/ Refuse("new_feedback_page", c, NoForm)
    \/ /\ is_authenticated(c)
       /\ Answer("new_feedback_page", c, NoForm,
                 IF current_user(c).is_teacher
                 THEN Redirect("dashboard_page")
                 ELSE IF EligibleClasses(session[c]) = {}
                 THEN Redirect("dashboard_page")
                 ELSE Html("new-feedback.html", "", EligibleClasses(session[c])))

\* Feedback.query.get(feedback_id): the rows with that primary key
FeedbackById(feedback_id) == {f \in feedback : f.id = IdOf(feedback_id)}

IdForm(feedback_id) == [id |-> feedback_id]

NotOwnedOnlyIfMissing(found, c) == found = {}
\* not feedback or feedback.student_id != current_user.id
NotOwned(found, c) == found = {} \/ \A f \in found : f.student_id # session[c]

edit_feedback_page(c, feedback_id) ==
    \/ Refuse("edit_feedback_page", c, IdForm(feedback_id))
    \/ /\ is_authenticated(c)
       /\ Answer("edit_feedback_page", c, IdForm(feedback_id),
                 IF current_user(c).is_teacher
                 THEN Redirect("dashboard_page")
                 ELSE IF NotOwned(FeedbackById(feedback_id), c)
                 THEN Redirect("dashboard_page")
                 ELSE Html("edit-feedback.html", "", EligibleClasses(session[c])))

---------------------------------------------------------------------------
(* POST /feedback/delete *)

DeleteDeniedNever(user) == FALSE
\* if current_user.is_teacher
DeleteDenied(user) == user.is_teacher

\* feedback = Feedback.query.filter_by(id=feedback_id) is a Query object, not a
\* row: `not feedback` is False whether or not a row has that id
QueryIsFalsy(rows) == FALSE

delete_feedback(c, feedback_id) ==
    \/ Refuse("delete_feedback", c, IdForm(feedback_id))
    \/ /\ is_authenticated(c)
       /\ IF DeleteDenied(current_user(c))
          THEN Answer("delete_feedback", c, IdForm(feedback_id), Json(2))
          ELSE IF QueryIsFalsy(FeedbackById(feedback_id))
          THEN Answer("delete_feedback", c, IdForm(feedback_id), Json(1))
          ELSE \* feedback.delete(): every row the query selects
               /\ feedback' = feedback \ FeedbackById(feedback_id)
               /\ last' = Request("delete_feedback", c, IdForm(feedback_id), Json(0), {})
               /\ UNCHANGED <<users, session, pending>>

---------------------------------------------------------------------------
(* POST /feedback/new , POST /feedback/edit/<feedback_id> *)

\* True if feedback_anonymous == 'on' else False
Checkbox(value) == value = "on"

\* the primary key the database gives the next Feedback row
NextFeedbackId ==
    IF feedback = {} THEN 1
    ELSE 1 + CHOOSE m \in {f.id : f \in feedback} : \A f \in feedback : f.id <= m

new_feedback(c, class_id, content, anonymous) ==
    LET form == NoForm
    IN  \/ Refuse("new_feedback", c, form)
        \/ /\ is_authenticated(c)
           /\ IF current_user(c).is_teacher
              THEN \* render_template(url_for('new_feedback_page')): no such template
                   Answer("new_feedback", c, form, ServerError("TemplateNotFound"))
              ELSE /\ NextFeedbackId <= MaxFeedbackId
                   /\ feedback' = feedback \cup
                          {[id |-> NextFeedbackId, student_id |-> session[c],
                            class_id |-> class_id, content |-> content,
                            is_anonymous |-> Checkbox(anonymous)]}
                   /\ last' = Request("new_feedback", c, form, Redirect("dashboard_page"), {})
                   /\ UNCHANGED <<users, session, pending>>

edit_feedback(c, feedback_id, class_id, content, anonymous) ==
    LET form == IdForm(feedback_id)
        found == FeedbackById(feedback_id)
    IN  \/ Refuse("edit_feedback", c, form)
        \/ /\ is_authenticated(c)
           /\ IF current_user(c).is_teacher
              THEN Answer("edit_feedback", c, form, Redirect("dashboard_page"))
              ELSE IF NotOwned(found, c)
              THEN Answer("edit_feedback", c, form, Redirect("dashboard_page"))
              ELSE /\ feedback' = (feedback \ found) \cup
                          {[f EXCEPT !.class_id = class_id, !.content = content,
                                     !.is_anonymous = Checkbox(anonymous)] : f \in found}
                   /\ last' = Request("edit_feedback", c, form, Redirect("dashboard_page"), {})
                   /\ UNCHANGED <<users, session, pending>>

---------------------------------------------------------------------------
(* GET and POST /feedback/export *)

export_feedback_page(c) ==
    \/ Refuse("export_feedback_page", c, NoForm)
    \/ /\ is_authenticated(c)
       /\ Answer("export_feedback_page", c, NoForm,
                 IF ~current_user(c).is_teacher
                 THEN Redirect("dashboard_page")
                 ELSE IF ~HasTeacher(current_user(c))
                 THEN ServerError("AttributeError")
                 ELSE IF ClassesOf(current_user(c).teacher_id) = {}
                 THEN Redirect("dashboard_page")
                 ELSE Html("export-feedback.html", "", ClassesOf(current_user(c).teacher_id)))

\* values of the 'export-format' form field
FormatInputs == {"excel", "csv", "pdf"}

ExportForm(classes, format) == [classes |-> classes, format |-> format]

BadExportRequestFormatOnly(classes, format) == format \notin {"excel", "csv"}
\* not classes or not export_format in ('excel', 'csv')
BadExportRequest(classes, format) == classes = {} \/ format \notin {"excel", "csv"}

\* the orders in which ORDER BY class_id may return the selected rows
OrderedByClass(rows) ==
    {q \in [1..Cardinality(rows) -> rows] :
        /\ \A i, j \in DOMAIN q : i # j => q[i] # q[j]
        /\ \A i, j \in DOMAIN q : i < j => IdOf(q[i].class_id) <= IdOf(q[j].class_id)}

\* df['Class'] = df.apply(lambda row: ..., axis=1): on a frame without rows
\* pandas' apply returns the frame itself (four columns), and assigning a
\* frame of several columns to the one column 'Class' raises ValueError
EmptyFrameRaises(rows) == rows = {}

\* one line of the exported table: Class, Student, Content
ExportRow(f) ==
    [Class |-> Classes[f.class_id].name,
     Student |-> IF f.is_anonymous THEN <<"Anonymous">> ELSE users[f.student_id].name,
     Content |-> f.content]

export_feedback(c, classes, format) ==
    LET form == ExportForm(classes, format)
        selected == {f \in feedback : f.class_id \in classes}
    IN  \/ Refuse("export_feedback", c, form)
        \/ /\ is_authenticated(c)
           /\ \E q \in OrderedByClass(selected) :
                Answer("export_feedback", c, form,
                       IF ~current_user(c).is_teacher
                       THEN Redirect("dashboard_page")
                       ELSE IF BadExportRequest(classes, format)
                       THEN Redirect("export_feedback_page")
                       ELSE IF EmptyFrameRaises(selected)
                       THEN ServerError("ValueError")
                       ELSE IF \E f \in selected : f.class_id \notin ClassIds
                       THEN ServerError("AttributeError")
                       ELSE File(format, [i \in DOMAIN q |-> ExportRow(q[i])]))

---------------------------------------------------------------------------
(* Specifications *)

\* the routes of login, session and teacher matching
NextAuth ==
    \E c \in Clients :
        \/ \E username \in UsernameInputs, password \in PasswordInputs :
               login(c, username, password)
        \/ index_page(c)
        \/ login_page(c)
        \/ logout_page(c)
        \/ match_teacher_page(c)
        \/ \E teacher_id \in TeacherIdInputs : match_teacher(c, teacher_id)
        \/ dashboard_page(c)

\* the routes of the feedback lifecycle
NextFeedback ==
    \E c \in Clients :
        \/ new_feedback_page(c)
        \/ \E feedback_id \in FeedbackIdInputs : delete_feedback(c, feedback_id)
        \/ \E class_id \in ClassInputs, content \in ContentInputs,
              anonymous \in AnonymousInputs :
               new_feedback(c, class_id, content, anonymous)
        \/ \E feedback_id \in FeedbackIdInputs, class_id \in ClassInputs,
              content \in ContentInputs, anonymous \in AnonymousInputs :
               edit_feedback(c, feedback_id, class_id, content, anonymous)

\* the routes of the export, and the edit form
NextExport ==
    \E c \in Clients :
        \/ \E feedback_id \in FeedbackIdInputs : edit_feedback_page(c, feedback_id)
        \/ export_feedback_page(c)
        \/ \E classes \in SUBSET ClassIds, format \in FormatInputs :
               export_feedback(c, classes, format)

Next == NextAuth \/ NextFeedback \/ NextExport

\* every route, from the empty database
Spec == Init /\ [][Next]_vars

\* login, session and matching, from the empty database
SpecAuth == Init /\ [][NextAuth]_vars

\* The database once two students and a teacher have logged in for the first
\* time, the teacher has matched the roster entry and has logged out
SeededUsers ==
    <<NewUser(s12345, <<"name", s12345>>, "pw"),
      NewUser(s123456, <<"name", s123456>>, "pw"),
      [NewUser(t001, <<"name", t001>>, "pw") EXCEPT !.teacher_id = "1"]>>

InitSeeded ==
    /\ users = SeededUsers
    /\ feedback = {}
    /\ session = [c \in Clients |-> 0]
    /\ pending = [w \in Workers |-> Idle]
    /\ last = Request("logout_page", "c1", NoForm, Redirect("login_page"), {})

\* the feedback lifecycle, and the routes by which its principals come and
\* go: each user of the database logs in with the password of their account
NextSeeded ==
    \/ NextFeedback
    \/ \E c \in Clients :
        \/ \E id \in DOMAIN users :
               login(c, users[id].school_id, SchoolPassword(users[id].school_id))
        \/ logout_page(c)

\* the feedback lifecycle, from a database with its users in place
SpecFeedback == InitSeeded /\ [][NextSeeded]_vars

\* every route that requires authentication, and the login that leads to
\* them, with one text for the content of a feedback
NextPortal ==
    \E c \in Clients :
        \/ \E id \in DOMAIN users :
               login(c, users[id].school_id, SchoolPassword(users[id].school_id))
        \/ logout_page(c)
        \/ match_teacher_page(c)
        \/ \E teacher_id \in TeacherIdInputs : match_teacher(c, teacher_id)
        \/ dashboard_page(c)
        \/ new_feedback_page(c)
        \/ \E feedback_id \in FeedbackIdInputs : edit_feedback_page(c, feedback_id)
        \/ \E feedback_id \in FeedbackIdInputs : delete_feedback(c, feedback_id)
        \/ \E class_id \in ClassInputs, anonymous \in AnonymousInputs :
               new_feedback(c, class_id, "good", anonymous)
        \/ \E feedback_id \in FeedbackIdInputs, class_id \in ClassInputs,
              anonymous \in AnonymousInputs :
               edit_feedback(c, feedback_id, class_id, "good", anonymous)
        \/ export_feedback_page(c)
        \/ \E classes \in SUBSET ClassIds, format \in FormatInputs :
               export_feedback(c, classes, format)

\* all the protected routes, from a database with its users in place
SpecPortal == InitSeeded /\ [][NextPortal]_vars

\* the identifiers typed into the login forms that race
RaceUsernameInputs == {s12345, t001, <<>>}

\* logins served by workers that interleave, and logout
NextLoginRace ==
    \/ \E w \in Workers, c \in Clients, username \in RaceUsernameInputs,
          password \in PasswordInputs :
           login_lookup(w, c, username, password)
    \/ \E w \in Workers : login_finish(w)
    \/ \E c \in Clients : logout_page(c)

\* concurrent logins, from the empty database
SpecLoginRace == Init /\ [][NextLoginRace]_vars

\* TLC refutes this under SpecAuth: InitSeeded is a state the program reaches
SeededNeverReached == ~(users = SeededUsers /\ feedback = {} /\ session["c1"] = 0
                     /\ last = Request("logout_page", "c1", NoForm, Redirect("login_page"), {}))

---------------------------------------------------------------------------
(* Properties of POST /feedback/delete and of the Feedback table *)

\* the principal who made the last request of a step, before the step
Principal == session[last'.client]

HasRowWithId(table, id) == \E f \in table : f.id = id

\* C1: a Feedback row leaves the table only in a POST /feedback/delete made
\* by the student the row belongs to.
C1_DeletedOnlyByOwner ==
    [][\A f \in feedback :
          ~HasRowWithId(feedback', f.id) =>
              /\ last'.route = "delete_feedback"
              /\ Principal = f.student_id]_vars

\* C2: no student has two Feedback rows for the same class.
C2_OneFeedbackPerStudentAndClass ==
    \A f, g \in feedback :
        (f.student_id = g.student_id /\ f.class_id = g.class_id) => f.id = g.id

\* C3: a student's POST /feedback/delete with an id no row has answers
\* code 1 and leaves the tables as they were.
C3_DeleteMissingAnswersCode1 ==
    [][(/\ last'.route = "delete_feedback"
        /\ Principal # 0
        /\ ~users[Principal].is_teacher
        /\ ~HasRowWithId(feedback, IdOf(last'.form.id)))
       => (/\ last'.resp.kind = "json"
           /\ last'.resp.code = 1
           /\ feedback' = feedback
           /\ users' = users)]_vars

\* C4: a teacher's POST /feedback/delete answers code 2 and leaves the
\* Feedback table as it was, whether or not a row has the submitted id.
C4_TeacherDeleteAnswersCode2 ==
    [][(/\ last'.route = "delete_feedback"
        /\ Principal # 0
        /\ users[Principal].is_teacher)
       => (/\ last'.resp.kind = "json"
           /\ last'.resp.code = 2
           /\ feedback' = feedback)]_vars

\* a teacher has asked to delete a row that exists, and it is still there
C4_Witness ==
    /\ last.route = "delete_feedback"
    /\ session[last.client] # 0
    /\ users[session[last.client]].is_teacher
    /\ HasRowWithId(feedback, IdOf(last.form.id))
    /\ last.resp.code = 2

---------------------------------------------------------------------------
(* Properties of POST /login and of /match-teacher *)

\* a lowercase s followed by exactly five digits, and nothing else
ExactStudentShape(username) ==
    /\ Len(username) = 6
    /\ username[1] = "s"
    /\ \A i \in 2..6 : username[i] \in Digits

\* C5: the User row a first login creates is a student's exactly when the
\* username is an s followed by exactly five digits; any other is a teacher's.
C5_StudentIffExactShape ==
    [][Len(users') > Len(users) =>
          LET user == users'[Len(users')]
          IN  /\ last'.gateway = {0}
              /\ user.is_teacher = ~ExactStudentShape(user.school_id)]_vars

\* C6: no Teacher row is referenced by two User rows.
C6_TeacherLinkedToAtMostOneUser ==
    \A t \in Teachers :
        \A i, j \in DOMAIN users :
            (users[i].teacher_id = t /\ users[j].teacher_id = t) => i = j

StorageUnchanged == users' = users /\ feedback' = feedback /\ session' = session

\* C7: a request to /match-teacher is served (GET renders the form, POST
\* stores the submitted id) exactly when the principal is a teacher whose
\* teacher_id is null; otherwise it redirects to the dashboard and changes
\* nothing; and a teacher_id that is set stays set, so every later request
\* of a matched principal is of the second kind.
C7_MatchOnlyWhileUnmatched ==
    [][/\ (last'.route = "match_teacher_page" /\ Principal # 0) =>
            IF users[Principal].is_teacher /\ users[Principal].teacher_id = None
            THEN last'.resp.kind = "html" /\ last'.resp.to = "match-teacher.html"
            ELSE /\ last'.resp.kind = "redirect"
                 /\ last'.resp.to = "dashboard_page"
                 /\ StorageUnchanged
       /\ (last'.route = "match_teacher" /\ Principal # 0) =>
            IF users[Principal].is_teacher /\ users[Principal].teacher_id = None
            THEN users' = [users EXCEPT ![Principal].teacher_id = last'.form.teacher_id]
            ELSE /\ last'.resp.kind = "redirect"
                 /\ last'.resp.to = "dashboard_page"
                 /\ StorageUnchanged
       /\ \A i \in DOMAIN users :
            users[i].teacher_id # None => users'[i].teacher_id # None]_vars

\* a matched teacher has posted another id to /match-teacher and was
\* redirected, the stored id being the earlier one
C7_Witness ==
    /\ last.route = "match_teacher"
    /\ session[last.client] # 0
    /\ users[session[last.client]].is_teacher
    /\ users[session[last.client]].teacher_id \notin {None, last.form.teacher_id}
    /\ last.resp.to = "dashboard_page"

NonTeachersUnlinked(table) ==
    \A i \in DOMAIN table : ~table[i].is_teacher => table[i].teacher_id = None

\* C8: a User who is not a teacher has no Teacher reference; a Teacher
\* reference that is set never changes, and only POST /match-teacher sets one.
C8_TeacherReferenceSetOnce ==
    /\ NonTeachersUnlinked(users)
    /\ [][/\ NonTeachersUnlinked(users')
          /\ \A i \in DOMAIN users :
               /\ users[i].teacher_id # None => users'[i].teacher_id = users[i].teacher_id
               /\ users'[i].teacher_id # users[i].teacher_id =>
                      last'.route = "match_teacher" /\ Principal = i
          /\ \A i \in DOMAIN users' \ DOMAIN users : users'[i].teacher_id = None]_vars

\* a student and a matched teacher are in the table, and the student has
\* posted to /match-teacher
C8_Witness ==
    /\ last.route = "match_teacher"
    /\ session[last.client] # 0
    /\ ~users[session[last.client]].is_teacher
    /\ \E i \in DOMAIN users : users[i].teacher_id \in Teachers

KnownUsername(username) == \E i \in DOMAIN users : users[i].school_id = username

WrongPassword(username, password) ==
    \A i \in DOMAIN users :
        users[i].school_id = username => ~check_password_hash(users[i].password, password)

FailurePage(resp) ==
    resp.kind = "html" /\ resp.to = "login.html" /\ resp.msg = "Incorrect credentials!"

\* C9: a login for a username that has a User row never calls the gateway;
\* with a password that does not match the stored hash it fails and changes
\* nothing.
C9_KnownUserNeverSentToGateway ==
    [][(last'.route = "login" /\ KnownUsername(last'.form.username)) =>
          /\ last'.gateway = {}
          /\ WrongPassword(last'.form.username, last'.form.password) =>
                 FailurePage(last'.resp) /\ StorageUnchanged]_vars

\* a user with a row has tried to log in with a password that is not theirs
C9_Witness ==
    /\ last.route = "login"
    /\ KnownUsername(last.form.username)
    /\ last.form.password = "bad"
    /\ WrongPassword(last.form.username, last.form.password)
    /\ FailurePage(last.resp)

\* the cases of a login that fails: an empty field, a wrong password for a
\* user with a row, a nonzero gateway status for a user without one
FailedLogin ==
    \/ last'.form.username = <<>>
    \/ last'.form.password = ""
    \/ /\ KnownUsername(last'.form.username)
       /\ WrongPassword(last'.form.username, last'.form.password)
    \/ /\ ~KnownUsername(last'.form.username)
       /\ last'.gateway # {}
       /\ 0 \notin last'.gateway

\* C10: a failed login creates no User row, logs nobody in and answers the
\* one failure page; a login inserts at most one row, and only for a
\* username without a row that the gateway answered with status 0.
C10_FailedLoginChangesNothing ==
    [][last'.route = "login" =>
          /\ FailedLogin => (FailurePage(last'.resp) /\ StorageUnchanged)
          /\ users' # users =>
                 /\ ~KnownUsername(last'.form.username)
                 /\ last'.gateway = {0}
                 /\ Len(users') = Len(users) + 1
                 /\ SubSeq(users', 1, Len(users)) = users
                 /\ users'[Len(users')].school_id = last'.form.username]_vars

\* the gateway could not be reached for a user without a row
C10_Witness ==
    /\ last.route = "login"
    /\ last.gateway = {2}
    /\ ~KnownUsername(last.form.username)
    /\ FailurePage(last.resp)

---------------------------------------------------------------------------
(* Properties of the feedback lifecycle *)

\* C11: a student's POST /feedback/edit/{id} for a row that belongs to
\* another student leaves the row as it was and redirects.
C11_EditByOtherStudentChangesNothing ==
    [][(/\ last'.route = "edit_feedback"
        /\ Principal # 0
        /\ ~users[Principal].is_teacher
        /\ \E f \in feedback : f.id = IdOf(last'.form.id) /\ f.student_id # Principal)
       => (/\ feedback' = feedback
           /\ last'.resp.kind = "redirect")]_vars

\* a student has posted an edit of a row that another student owns
C11_Witness ==
    /\ last.route = "edit_feedback"
    /\ session[last.client] # 0
    /\ ~users[session[last.client]].is_teacher
    /\ \E f \in feedback : f.id = IdOf(last.form.id) /\ f.student_id # session[last.client]

\* the classes a student has a Feedback row for
ReviewedClasses(table, student_id) ==
    {c \in ClassIds : \E f \in table : f.student_id = student_id /\ f.class_id = c}

\* C13: the class set of the new-feedback form is the full class set minus
\* the classes the student has a Feedback row for (the form is not rendered
\* when that set is empty); a class the student creates a Feedback for is
\* not in the set computed next.
C13_EligibleIsAllMinusReviewed ==
    [][/\ (last'.route = "new_feedback_page" /\ Principal # 0
             /\ ~users[Principal].is_teacher) =>
            IF ClassIds \ ReviewedClasses(feedback, Principal) = {}
            THEN last'.resp.kind = "redirect"
            ELSE /\ last'.resp.kind = "html"
                 /\ last'.resp.data = ClassIds \ ReviewedClasses(feedback, Principal)
       /\ (last'.route = "new_feedback" /\ Principal # 0
             /\ ~users[Principal].is_teacher) =>
            \E f \in feedback' \ feedback :
                /\ feedback' = feedback \cup {f}
                /\ f.student_id = Principal
                /\ f.class_id \notin ClassIds \ ReviewedClasses(feedback', Principal)]_vars

\* the form is rendered for a student who has reviewed one class, and
\* another student has reviewed the class it offers
C13_Witness ==
    /\ last.route = "new_feedback_page"
    /\ last.resp.kind = "html"
    /\ session[last.client] # 0
    /\ ReviewedClasses(feedback, session[last.client]) # {}
    /\ \E f \in feedback : f.student_id # session[last.client] /\ f.class_id \in last.resp.data

\* C16: a teacher's POST /feedback/new inserts no row and is answered with
\* a redirect.
C16_TeacherNewFeedbackRedirects ==
    [][(/\ last'.route = "new_feedback"
        /\ Principal # 0
        /\ users[Principal].is_teacher)
       => (/\ feedback' = feedback
           /\ last'.resp.kind = "redirect")]_vars

---------------------------------------------------------------------------
(* Properties of the protected routes and of the export *)

\* the routes under @login_required
ProtectedRoutes ==
    {"logout_page", "match_teacher_page", "match_teacher", "dashboard_page",
     "new_feedback_page", "new_feedback", "edit_feedback_page", "edit_feedback",
     "delete_feedback", "export_feedback_page", "export_feedback"}

\* C12: a request to a protected route without a principal is answered
\* with a redirect to /login, and the tables and the session stay as they were.
C12_UnauthenticatedRedirectsToLogin ==
    [][(last'.route \in ProtectedRoutes /\ Principal = 0) =>
          /\ last'.resp.kind = "redirect"
          /\ last'.resp.to = "login_page"
          /\ StorageUnchanged]_vars

\* nobody is logged in, a delete of a row that exists was asked for, and the
\* row is still there
C12_Witness ==
    /\ last.route = "delete_feedback"
    /\ session[last.client] = 0
    /\ HasRowWithId(feedback, IdOf(last.form.id))
    /\ last.resp.to = "login_page"

\* the rows of a table in the order of q, as the export shows them
ShownAs(q) ==
    [i \in DOMAIN q |->
        [Class |-> Classes[q[i].class_id].name,
         Student |-> IF q[i].is_anonymous THEN <<"Anonymous">>
                     ELSE users[q[i].student_id].name,
         Content |-> q[i].content]]

\* C14: a teacher's export with a non-empty class list and a recognized
\* format is a file with one line per Feedback row of the requested classes,
\* by ascending class id, the student shown as "Anonymous" on the anonymous
\* rows and by display name on the others.
C14_ExportHasOneLinePerRow ==
    [][(/\ last'.route = "export_feedback"
        /\ Principal # 0
        /\ users[Principal].is_teacher
        /\ last'.form.classes # {}
        /\ last'.form.format \in {"excel", "csv"})
       => LET wanted == {f \in feedback : f.class_id \in last'.form.classes}
          IN  /\ last'.resp.kind = "file"
              /\ Len(last'.resp.rows) = Cardinality(wanted)
              /\ \E q \in [1..Cardinality(wanted) -> wanted] :
                    /\ \A i, j \in DOMAIN q : i # j => q[i] # q[j]
                    /\ \A i, j \in DOMAIN q :
                          i < j => IdOf(q[i].class_id) <= IdOf(q[j].class_id)
                    /\ last'.resp.rows = ShownAs(q)]_vars

\* C15: a teacher's export with an empty class list or an unrecognized
\* format redirects to the export form and produces no file; an export by a
\* principal who is not a teacher produces no file either.
C15_BadExportRedirects ==
    [][(last'.route = "export_feedback" /\ Principal # 0) =>
          /\ (/\ users[Principal].is_teacher
              /\ (last'.form.classes = {} \/ last'.form.format \notin {"excel", "csv"}))
             => (/\ last'.resp.kind = "redirect"
                 /\ last'.resp.to = "export_feedback_page"
                 /\ last'.resp.rows = <<>>
                 /\ StorageUnchanged)
          /\ ~users[Principal].is_teacher
             => (/\ last'.resp.kind = "redirect"
                 /\ last'.resp.rows = <<>>
                 /\ StorageUnchanged)]_vars

\* a teacher has asked for an export of no class in a recognized format
\* while there is feedback to export
C15_Witness ==
    /\ last.route = "export_feedback"
    /\ session[last.client] # 0
    /\ users[session[last.client]].is_teacher
    /\ last.form.classes = {}
    /\ last.form.format = "csv"
    /\ feedback # {}
    /\ last.resp.to = "export_feedback_page"

---------------------------------------------------------------------------
(* Properties of the teacher link and of the User table *)

\* C17: when the dashboard or the export form is served to a teacher, the
\* teacher's teacher_id refers to a row of the Teacher table.
C17_TeacherPagesHaveTeacher ==
    [][(/\ last'.route \in {"dashboard_page", "export_feedback_page"}
        /\ Principal # 0
        /\ users[Principal].is_teacher)
       => users[Principal].teacher_id \in Teachers]_vars

\* C18: no two User rows have the same school identifier, also when two
\* first logins of one identifier interleave between the lookup and the
\* insert.
C18_SchoolIdIsUnique ==
    \A i, j \in DOMAIN users : users[i].school_id = users[j].school_id => i = j

\* a login looked its user up, found none, and at its commit the row of
\* another login was there: the insert was refused
C18_Witness ==
    /\ last.route = "login"
    /\ last.resp.to = "IntegrityError"
    /\ KnownUsername(last.form.username)

=============================================================================
